---- MODULE Spec2Model ----
(***************************************************************************)
(* Model of the goppy concurrent web crawler (package crawler): the worker *)
(* pool of Crawler.Start / Crawler.worker, the visited registry, the       *)
(* robots cache with RobotRules, and the frontier and result channels.     *)
(*                                                                         *)
(* A URL string is represented by the record url.Parse yields for it       *)
(* (scheme, host, path, fragment); a path is a sequence of one-character   *)
(* strings.  Time is counted in whole seconds.                             *)
(***************************************************************************)
EXTENDS Naturals, Integers, Sequences, FiniteSets, Bags, TLC

(***************************************************************************)
(* Bounds of the model.                                                    *)
(***************************************************************************)
MaxWorkers == 2
MaxDepthBound == 1
QueueCap == 2
ResultsCap == 1
MaxTime == 0
MaxRequests == 2
MaxCrawls == 2

(***************************************************************************)
(* Program constants.                                                      *)
(***************************************************************************)
DefaultCrawlDelay == 1
ZeroTime == -100

Workers == 1..MaxWorkers

(***************************************************************************)
(* Sequence helpers (package strings).                                     *)
(***************************************************************************)
HasSuffix(s, c) == Len(s) > 0 /\ s[Len(s)] = c

ContainsChar(s, c) == \E i \in 1..Len(s) : s[i] = c

ContainsSeq(s, sub) ==
    \E i \in 0..(Len(s) - Len(sub)) : SubSeq(s, i + 1, i + Len(sub)) = sub

(***************************************************************************)
(* URLs.                                                                   *)
(***************************************************************************)
MkURL(s, h, p, f) == [scheme |-> s, host |-> h, path |-> p, frag |-> f, valid |-> TRUE]

BadRef == [scheme |-> "", host |-> "", path |-> <<"%">>, frag |-> "", valid |-> FALSE]

Ex(p) == MkURL("https", "example.com", p, "")
Ot(p) == MkURL("https", "other.com", p, "")
Rel(p) == MkURL("", "", p, "")
RelF(p, f) == MkURL("", "", p, f)

\* The request of a URL does not carry its fragment.
StripFrag(u) == [u EXCEPT !.frag = ""]

PRoot == <<"/">>
PA == <<"/", "a">>
PB == <<"/", "b">>
PC == <<"/", "c">>
PPriv == <<"/", "p", "/", "x">>
PUp == <<".", ".", "/">>

Seed == Ex(PRoot)

\* strings.LastIndex(s, "/"), counted from 1; 0 when s has no slash.
RECURSIVE LastSlash(_)
LastSlash(s) == IF s = <<>> THEN 0
                ELSE IF s[Len(s)] = "/" THEN Len(s)
                ELSE LastSlash(SubSeq(s, 1, Len(s) - 1))

\* base[:i+1]: the base path up to and with its last slash.
DirOf(p) == SubSeq(p, 1, LastSlash(p))

\* The elements of a path between its slashes (strings.Cut in a loop).
RECURSIVE Elements(_, _)
Elements(s, elem) ==
    IF s = <<>> THEN << elem >>
    ELSE IF Head(s) = "/" THEN << elem >> \o Elements(Tail(s), <<>>)
    ELSE Elements(Tail(s), Append(elem, Head(s)))

Dot == << "." >>
DotDot == << ".", "." >>

\* The loop of resolvePath over the elements: "." is skipped, ".." removes
\* the last element written, any other element is written after a slash.
RECURSIVE RemoveDotSegments(_, _, _)
RemoveDotSegments(elems, dst, first) ==
    IF elems = <<>> THEN dst
    ELSE LET elem == Head(elems)
             str == Tail(dst)
             index == LastSlash(str)
         IN IF elem = Dot THEN RemoveDotSegments(Tail(elems), dst, FALSE)
            ELSE IF elem = DotDot
            THEN IF index = 0
                 THEN RemoveDotSegments(Tail(elems), << "/" >>, TRUE)
                 ELSE RemoveDotSegments(Tail(elems),
                                        << "/" >> \o SubSeq(str, 1, index - 1), first)
            ELSE RemoveDotSegments(Tail(elems),
                                   (IF first THEN dst ELSE Append(dst, "/")) \o elem,
                                   FALSE)

\* resolvePath of net/url: an absolute reference path replaces the base path,
\* an empty one keeps it, a relative one replaces the last segment; then the
\* dot segments are removed.
ResolvePath(base, ref) ==
    LET full == IF ref = <<>> THEN base
                ELSE IF Head(ref) # "/" THEN DirOf(base) \o ref
                ELSE ref
        elems == Elements(full, <<>>)
        last == elems[Len(elems)]
        dst == RemoveDotSegments(elems, << "/" >>, TRUE)
        r == IF last \in {Dot, DotDot} THEN Append(dst, "/") ELSE dst
    IN IF full = <<>> THEN <<>>
       ELSE IF Len(r) > 1 /\ r[2] = "/" THEN Tail(r)
       ELSE r

\* The paths of the page graphs, and resolvePath on them, computed once.
KnownPaths == {<<>>, PRoot, PA, PB, PC, PPriv, PUp}

ResolvedPaths == [b \in KnownPaths, r \in KnownPaths |-> ResolvePath(b, r)]

\* resolvePath, looked up for the known paths and computed for all others.
ResolvedPath(b, r) ==
    IF b \in KnownPaths /\ r \in KnownPaths THEN ResolvedPaths[b, r]
    ELSE ResolvePath(b, r)

\* url.Parse of both strings, then baseURL.ResolveReference(relURL).
resolveURL(base, rel) ==
    IF ~base.valid \/ ~rel.valid THEN [ok |-> FALSE, url |-> BadRef]
    ELSE IF rel.scheme # "" \/ rel.host # ""
    THEN [ok |-> TRUE,
          url |-> [rel EXCEPT !.scheme = IF rel.scheme = "" THEN base.scheme ELSE @,
                              !.path = ResolvedPath(rel.path, <<>>)]]
    ELSE [ok |-> TRUE,
          url |-> MkURL(base.scheme, base.host, ResolvedPath(base.path, rel.path),
                        IF rel.path = <<>> /\ rel.frag = "" THEN base.frag ELSE rel.frag)]

(***************************************************************************)
(* RobotRules (robots.go).                                                 *)
(***************************************************************************)
UpperChars == <<"A", "B", "C", "D", "E", "F", "G", "H", "I", "J", "K", "L", "M",
                "N", "O", "P", "Q", "R", "S", "T", "U", "V", "W", "X", "Y", "Z">>
LowerChars == <<"a", "b", "c", "d", "e", "f", "g", "h", "i", "j", "k", "l", "m",
                "n", "o", "p", "q", "r", "s", "t", "u", "v", "w", "x", "y", "z">>

LowerChar(c) == IF \E i \in 1..26 : UpperChars[i] = c
                THEN LowerChars[CHOOSE i \in 1..26 : UpperChars[i] = c]
                ELSE c

ToLower(s) == [i \in 1..Len(s) |-> LowerChar(s[i])]

\* The crawler's own agent string, "GoCrawler/1.0".
UserAgent == <<"G", "o", "C", "r", "a", "w", "l", "e", "r", "/", "1", ".", "0">>

Digits == <<"0", "1", "2", "3", "4", "5", "6", "7", "8", "9">>
IsDigit(c) == \E i \in 1..10 : Digits[i] = c
DigitVal(c) == (CHOOSE i \in 1..10 : Digits[i] = c) - 1

RECURSIVE ScanDigits(_, _)
ScanDigits(s, acc) == IF s # <<>> /\ IsDigit(Head(s))
                      THEN ScanDigits(Tail(s), acc * 10 + DigitVal(Head(s)))
                      ELSE acc

\* fmt.Sscanf(value, "%d", &seconds): an optional sign, then at least one
\* digit; what follows the digits is left unread.
Sscanf(value) ==
    LET signed == value # <<>> /\ Head(value) \in {"-", "+"}
        body == IF signed THEN Tail(value) ELSE value
        n == ScanDigits(body, 0)
    IN IF body = <<>> \/ ~IsDigit(Head(body)) THEN [ok |-> FALSE, n |-> 0]
       ELSE [ok |-> TRUE, n |-> IF signed /\ Head(value) = "-" THEN 0 - n ELSE n]

NewRobotRules == [disallowedPaths |-> <<>>, crawlDelay |-> DefaultCrawlDelay,
                  lastAccess |-> ZeroTime]

\* One line of robots.txt after SplitN(line, ":", 2), TrimSpace and ToLower of
\* the field; a comment, a blank line or a line without a colon has field "".
Line(f, v) == [field |-> f, value |-> v]

\* Variant: every User-agent line opens an applicable block.
UserAgentMatchesAny(value) == TRUE

\* value == "*" || strings.Contains(strings.ToLower(r.userAgent), strings.ToLower(value))
UserAgentMatches(value) ==
    value = <<"*">> \/ ContainsSeq(ToLower(UserAgent), ToLower(value))

RECURSIVE ParseLines(_, _, _)
ParseLines(lines, userAgentMatch, r) ==
    IF lines = <<>> THEN r
    ELSE LET l == Head(lines)
             rest == Tail(lines)
         IN IF l.field = "" THEN ParseLines(rest, userAgentMatch, r)
            ELSE IF l.field = "user-agent"
                 THEN ParseLines(rest, UserAgentMatches(l.value), r)
            ELSE IF ~userAgentMatch THEN ParseLines(rest, userAgentMatch, r)
            ELSE IF l.field = "disallow"
                 THEN IF l.value = <<>> THEN ParseLines(rest, userAgentMatch, r)
                      ELSE ParseLines(rest, userAgentMatch,
                               [r EXCEPT !.disallowedPaths = Append(@, l.value)])
            ELSE IF l.field = "crawl-delay"
                 THEN LET sc == Sscanf(l.value)
                      IN IF sc.ok /\ sc.n > 0
                         THEN ParseLines(rest, userAgentMatch, [r EXCEPT !.crawlDelay = sc.n])
                         ELSE ParseLines(rest, userAgentMatch, r)
            ELSE ParseLines(rest, userAgentMatch, r)

\* RobotRules.Parse: resets the rules, keeps lastAccess.
Parse(r, content) ==
    ParseLines(content, FALSE,
               [r EXCEPT !.disallowedPaths = <<>>, !.crawlDelay = DefaultCrawlDelay])

\* regexp "^" + QuoteMeta(value) with "\*" replaced by ".*", MatchString:
\* the pattern matches at the start of the path, "*" matches any run of
\* characters without a line feed (the "." of regexp does not match "\n").
RECURSIVE MatchString(_, _)
MatchString(pat, s) ==
    IF pat = <<>> THEN TRUE
    ELSE IF Head(pat) = "*"
         THEN \E k \in 0..Len(s) :
                 /\ \A i \in 1..k : s[i] # "\n"
                 /\ MatchString(Tail(pat), SubSeq(s, k + 1, Len(s)))
         ELSE s # <<>> /\ Head(s) = Head(pat) /\ MatchString(Tail(pat), Tail(s))

NormalizedPath(path) ==
    IF ~HasSuffix(path, "/") /\ ~ContainsChar(path, ".") THEN Append(path, "/") ELSE path

IsAllowed(r, u) ==
    IF ~u.valid THEN FALSE
    ELSE ~\E i \in 1..Len(r.disallowedPaths) :
              MatchString(r.disallowedPaths[i], NormalizedPath(u.path))

\* Variant: Wait measures the elapsed time against the default delay.
WakeTimeDefault(r, t) ==
    LET elapsed == t - r.lastAccess
    IN IF elapsed < DefaultCrawlDelay THEN t + (DefaultCrawlDelay - elapsed) ELSE t

\* Variant: Wait does not sleep.
WakeTimeNoDelay(r, t) == t

\* RobotRules.Wait up to the sleep: the time at which the caller wakes.
WakeTime(r, t) ==
    LET elapsed == t - r.lastAccess
    IN IF elapsed < r.crawlDelay THEN t + (r.crawlDelay - elapsed) ELSE t

(***************************************************************************)
(* The web the crawler runs against: what each GET returns.                *)
(***************************************************************************)
Hosts == {"example.com", "other.com"}

\* robots.txt of a host: whether the GET succeeds with status 200, and the
\* lines of the body.
RobotsTxt(h) ==
    IF h = "example.com"
    THEN [ok |-> TRUE,
          content |-> << Line("", <<>>),
                         Line("user-agent", <<"*">>),
                         Line("disallow", <<"/", "p">>),
                         Line("crawl-delay", <<"2">>) >>]
    ELSE [ok |-> FALSE, content |-> <<>>]

\* A page: the outcome of the GET, the content type, the href values of its
\* anchors in document order.
Page(st, h, l) == [status |-> st, html |-> h, hrefs |-> l]

\* The GET that ends without a response: httpClient.Do returns an error.
NoResponse == Page(0, FALSE, <<>>)

Mailto == [scheme |-> "mailto", host |-> "", path |-> <<>>, frag |-> "", valid |-> TRUE]

\* Web 1: the seed links to /a twice; /a links back to the seed by "../".
Web1(u) ==
    IF u = Seed THEN Page(200, TRUE, << Rel(PA), Rel(PA) >>)
    ELSE IF u = Ex(PA) THEN Page(200, TRUE, << Rel(PUp) >>)
    ELSE Page(500, FALSE, <<>>)

\* Web 2: the seed links to two pages of another host, whose robots.txt
\* cannot be fetched; one is not HTML (its body has an anchor all the same),
\* the GET of the other fails without a response.
Web2(u) ==
    IF u = Seed THEN Page(200, TRUE, << Ot(PB), Ot(PC) >>)
    ELSE IF u = Ot(PB) THEN Page(200, FALSE, << Rel(PA) >>)
    ELSE IF u = Ot(PC) THEN NoResponse
    ELSE Page(500, FALSE, <<>>)

\* Web 3: the seed links twice to a page its own robots.txt disallows, to a
\* mail address and to a reference that does not parse.
Web3(u) ==
    IF u = Seed THEN Page(200, TRUE, << Rel(PPriv), Mailto, Rel(PPriv), BadRef >>)
    ELSE IF u = Ex(PPriv) THEN Page(200, TRUE, << Rel(PA) >>)
    ELSE Page(500, FALSE, <<>>)

\* Web 4, the scenario of the specification: the seed links to /a twice and
\* to a page of another host; /a links back to the seed.
Web4(u) ==
    IF u = Seed THEN Page(200, TRUE, << Rel(PA), Rel(PA), Ot(PB) >>)
    ELSE IF u = Ex(PA) THEN Page(200, TRUE, << Rel(PRoot) >>)
    ELSE IF u = Ot(PB) THEN Page(200, TRUE, <<>>)
    ELSE Page(500, FALSE, <<>>)

\* Web 5: the seed links to /c#top and twice to /c; /c answers 500 with an
\* HTML error page that has a link of its own.
Web5(u) ==
    IF u = Seed THEN Page(200, TRUE, << RelF(PC, "top"), Rel(PC), Rel(PC) >>)
    ELSE IF u = Ex(PC) THEN Page(500, TRUE, << Rel(PA) >>)
    ELSE Page(500, FALSE, <<>>)

\* Web 6, the robots scenario of the specification: the seed links to a page
\* under the disallowed prefix and to a public page of the same host.
Web6(u) ==
    IF u = Seed THEN Page(200, TRUE, << Rel(PPriv), Rel(PA) >>)
    ELSE IF u \in {Ex(PPriv), Ex(PA)} THEN Page(200, TRUE, <<>>)
    ELSE Page(500, FALSE, <<>>)

\* The webs of the general runs, the web of the scenario runs, the web of
\* the robots scenario, and the run whose start URL does not parse.
Webs == {1, 2, 3, 5}
ScenarioWebs == {4}
RobotsScenarioWebs == {6}
MalformedSeedWebs == {7}

(***************************************************************************)
(* State.                                                                  *)
(***************************************************************************)
VARIABLES
    web,            \* which web the run crawls
    maxWorkers,     \* Crawler.maxWorkers
    maxDepth,       \* Crawler.maxDepth
    cancelled,      \* ctx.Done() is closed
    urlsToCrawl,    \* Crawler.urlsToCrawl: the buffered channel of crawlTask
    results,        \* Crawler.results: the buffered channel of CrawlResult
    resultsClosed,  \* close(c.results) has run
    closeCount,     \* number of times close(c.results) has run
    panicked,       \* a send on the closed results channel has happened
    visitedURLs,    \* Crawler.visitedURLs: the keys of the sync.Map
    robotsMap,      \* Crawler.robotsMap: host -> index into rulesHeap, 0 if absent
    rulesHeap,      \* the *RobotRules objects allocated so far
    wg,             \* Crawler.wg: the WaitGroup counter
    wk,             \* per worker goroutine: position and locals
    starter,        \* position of the goroutine of Start (seed, Wait, close)
    now,            \* the clock, in seconds
    emitted,        \* history: bag of all CrawlResults sent on results
    fetched,        \* history: bag of the page GETs started, with their start time
    received,       \* history: number of CrawlResults the consumer has read
    dropped,        \* history: the URLs queueLinks has dropped on a full queue
    stopReceived,   \* the WebSocket handler has read a "stop" message
    dequeued,       \* history: number of tasks the workers have dequeued
    call,           \* a call of a RobotRules method on its own: the arguments
    ret,            \* what that call has returned
    handler,        \* position of the goroutine that ranges over the results
    api             \* the APIServer: its crawler field, its goroutines, its lock

vars == << web, maxWorkers, maxDepth, cancelled, urlsToCrawl, results, resultsClosed,
           closeCount, panicked, visitedURLs, robotsMap, rulesHeap, wg, wk,
           starter, now, emitted, fetched, received, dropped, stopReceived,
           dequeued, call, ret, handler, api >>

NoTask == [url |-> BadRef, depth |-> 0]

IdleWorker(p) == [pc |-> p, task |-> NoTask, rules |-> 0, wake |-> 0,
                  links |-> <<>>, err |-> "", idx |-> 0]

crawlTask(u, d) == [url |-> u, depth |-> d]

\* Variant: the result is built before the links are known.
CrawlResultNoLinks(u, l, e) == [url |-> u, links |-> <<>>, err |-> e]

CrawlResult(u, l, e) == [url |-> u, links |-> l, err |-> e]

PageOf(u) ==
    LET q == StripFrag(u)
    IN IF web = 1 THEN Web1(q)
       ELSE IF web = 2 THEN Web2(q)
       ELSE IF web = 3 THEN Web3(q)
       ELSE IF web = 4 THEN Web4(q)
       ELSE IF web = 5 THEN Web5(q)
       ELSE IF web = 6 THEN Web6(q)
       ELSE Web1(q)

\* The startURL handed to Start.
StartURL == IF web \in MalformedSeedWebs THEN BadRef ELSE Seed

Requests == 1..MaxRequests
Crawls == 1..MaxCrawls

\* The server before any request: s.crawler is nil, no POST /crawl has been
\* handled, no crawl has been started on the connection, clientsLock is free.
NewAPIServer ==
    [crawler |-> 0,
     post |-> [r \in Requests |-> "new"],
     inst |-> [r \in Requests |-> 0],
     starts |-> [i \in Requests |-> 0],
     lock |-> 0,
     clients |-> FALSE,
     conn |-> "open",
     loop |-> "register",
     ws |-> [k \in Crawls |-> "none"]]

\* The state NewCrawler and the loop of Start leave behind, for a web of W,
\* a number of workers of N and a depth limit of D.
InitWith(W, N, D) ==
    /\ web \in W
    /\ maxWorkers \in N
    /\ maxDepth \in D
    /\ cancelled = FALSE
    /\ urlsToCrawl = <<>>
    /\ results = <<>>
    /\ resultsClosed = FALSE
    /\ closeCount = 0
    /\ panicked = FALSE
    /\ visitedURLs = {}
    /\ robotsMap = [h \in Hosts |-> 0]
    /\ rulesHeap = <<>>
    /\ wg = maxWorkers
    /\ wk = [w \in Workers |-> IdleWorker(IF w <= maxWorkers THEN "select" ELSE "off")]
    /\ starter = "seed"
    /\ now = 0
    /\ emitted = EmptyBag
    /\ fetched = EmptyBag
    /\ received = 0
    /\ dropped = {}
    /\ stopReceived = FALSE
    /\ dequeued = 0
    /\ handler = "ranging"
    /\ api = NewAPIServer

NoCall == [fn |-> "none", patterns |-> <<>>, path |-> <<>>, content |-> <<>>]

NoRet == [done |-> FALSE, allowed |-> FALSE, rules |-> NewRobotRules]

\* No RobotRules method is called on its own during a crawl.
NoCalls == call = NoCall /\ ret = NoRet

\* A crawl with at least one worker and a depth limit of at least zero.
\* The depth limits of the general runs: the seed alone, and the deepest
\* crawl of the bound.
Depths == {0, MaxDepthBound}

Init == InitWith(Webs, 1..MaxWorkers, Depths) /\ NoCalls

BagAdd(b, e) == b (+) SetToBag({e})

(***************************************************************************)
(* The goroutine of Crawler.Start.                                         *)
(***************************************************************************)
\* c.urlsToCrawl <- crawlTask{URL: startURL, Depth: 0}
SendSeed ==
    /\ starter = "seed"
    /\ Len(urlsToCrawl) < QueueCap
    /\ urlsToCrawl' = Append(urlsToCrawl, crawlTask(StartURL, 0))
    /\ starter' = "wait"
    /\ UNCHANGED << api, handler, call, ret, dequeued, stopReceived, dropped, web, maxWorkers, maxDepth, cancelled, results, resultsClosed, closeCount,
                    panicked, visitedURLs, robotsMap, rulesHeap, wg, wk, now,
                    emitted, fetched, received >>

\* Variant: Wait returns as soon as one worker has called Done.
WaitReturnsEarly == wg < maxWorkers

\* c.wg.Wait() returns
WaitReturns == wg = 0

\* c.wg.Wait(); close(c.results)
CloseResults ==
    /\ starter = "wait"
    /\ WaitReturns
    /\ resultsClosed' = TRUE
    /\ closeCount' = closeCount + 1
    /\ starter' = "done"
    /\ UNCHANGED << api, handler, call, ret, dequeued, stopReceived, dropped, web, maxWorkers, maxDepth, cancelled, urlsToCrawl, results, panicked,
                    visitedURLs, robotsMap, rulesHeap, wg, wk, now, emitted,
                    fetched, received >>

(***************************************************************************)
(* Crawler.worker.                                                         *)
(***************************************************************************)
\* Variant: the worker also returns when it finds the queue empty.
CtxDoneOrIdle == cancelled \/ urlsToCrawl = <<>>

\* Variant: the worker does not watch ctx.Done().
CtxDoneIgnored == FALSE

\* select, case <-ctx.Done(): return (with the deferred c.wg.Done())
CtxDoneReady == cancelled

WorkerExit(w) ==
    /\ wk[w].pc = "select"
    /\ CtxDoneReady
    /\ wk' = [wk EXCEPT ![w] = IdleWorker("done")]
    /\ wg' = wg - 1
    /\ UNCHANGED << api, handler, call, ret, dequeued, stopReceived, dropped, web, maxWorkers, maxDepth, cancelled, urlsToCrawl, results, resultsClosed,
                    closeCount, panicked, visitedURLs, robotsMap, rulesHeap,
                    starter, now, emitted, fetched, received >>

\* select, case task, ok := <-c.urlsToCrawl; the channel is never closed, so
\* ok is always true.  The select may take this case whenever a task is
\* buffered, whether or not ctx.Done() is ready too.
Dequeue(w) ==
    /\ wk[w].pc = "select"
    /\ urlsToCrawl # <<>>
    /\ wk' = [wk EXCEPT ![w] = [IdleWorker("sleep") EXCEPT !.task = Head(urlsToCrawl)]]
    /\ urlsToCrawl' = Tail(urlsToCrawl)
    /\ dequeued' = dequeued + 1
    /\ UNCHANGED << api, handler, call, ret, stopReceived, dropped, web, maxWorkers, maxDepth, cancelled, results, resultsClosed, closeCount,
                    panicked, visitedURLs, robotsMap, rulesHeap, wg, starter, now,
                    emitted, fetched, received >>

\* Variant: the registry is not consulted.
LoadedNever(u) == FALSE

\* Variant: a URL counts as visited only once its page has been fetched.
LoadedIfFetched(u) == \E f \in BagToSet(fetched) : f.url = u

\* c.visitedURLs.LoadOrStore(urlStr, struct{}{}): loaded
Loaded(u) == u \in visitedURLs

\* Variant: the store keeps the new key only.
StoredAlone(v, u) == {u}

\* c.visitedURLs.LoadOrStore(urlStr, struct{}{}): the registry afterwards
Stored(v, u) == v \cup {u}

\* Variant: a worker that loses the claim goes back to its select.
AfterClaimSkip(u) == IF Loaded(u) THEN "select" ELSE "robots"

\* Where processURL goes after the LoadOrStore: on loaded it returns
\* (nil, nil) to the worker, which sends the result.
AfterClaim(u) == IF Loaded(u) THEN "send" ELSE "robots"

\* time.Sleep(c.crawlDelay) is over; processURL starts with the LoadOrStore.
\* A URL already in the registry gives (nil, nil).
Claim(w) ==
    /\ wk[w].pc = "sleep"
    /\ LET u == wk[w].task.url
       IN /\ visitedURLs' = Stored(visitedURLs, u)
          /\ wk' = [wk EXCEPT ![w].pc = AfterClaim(u)]
    /\ UNCHANGED << api, handler, call, ret, dequeued, stopReceived, dropped, web, maxWorkers, maxDepth, cancelled, urlsToCrawl, results, resultsClosed,
                    closeCount, panicked, robotsMap, rulesHeap, wg, starter, now,
                    emitted, fetched, received >>

\* url.Parse(urlStr), then getRobotsRules up to c.robotsMap.Load(host): a hit
\* returns the cached object, a miss allocates NewRobotRules and goes on to
\* fetch robots.txt.
LookupRules(w) ==
    /\ wk[w].pc = "robots"
    /\ LET u == wk[w].task.url
       IN IF ~u.valid
          THEN /\ wk' = [wk EXCEPT ![w].pc = "send", ![w].err = "invalid URL"]
               /\ UNCHANGED rulesHeap
          ELSE IF u.host = ""
          THEN /\ wk' = [wk EXCEPT ![w].pc = "send", ![w].err = "robots rules"]
               /\ UNCHANGED rulesHeap
          ELSE IF robotsMap[u.host] # 0
          THEN /\ wk' = [wk EXCEPT ![w].pc = "check", ![w].rules = robotsMap[u.host]]
               /\ UNCHANGED rulesHeap
          ELSE /\ rulesHeap' = Append(rulesHeap, NewRobotRules)
               /\ wk' = [wk EXCEPT ![w].pc = "robotsGet", ![w].rules = Len(rulesHeap) + 1]
    /\ UNCHANGED << api, handler, call, ret, dequeued, stopReceived, dropped, web, maxWorkers, maxDepth, cancelled, urlsToCrawl, results, resultsClosed,
                    closeCount, panicked, visitedURLs, robotsMap, wg, starter, now,
                    emitted, fetched, received >>

\* Variant: a robots.txt that cannot be fetched closes the whole host.
RulesAfterGetDenyAll(r, txt) ==
    IF txt.ok THEN Parse(r, txt.content) ELSE [r EXCEPT !.disallowedPaths = << <<"/">> >>]

\* The rules getRobotsRules stores after the GET of robots.txt: the parsed
\* ones on a 200, the default ones on a failed request or another status.
RulesAfterGet(r, txt) == IF txt.ok THEN Parse(r, txt.content) ELSE r

\* getRobotsRules from c.httpClient.Do(req) on: Parse on a 200, then
\* c.robotsMap.Store(host, rules).
FetchRobots(w) ==
    /\ wk[w].pc = "robotsGet"
    /\ LET h == wk[w].task.url.host
           r == wk[w].rules
           txt == RobotsTxt(h)
       IN /\ rulesHeap' = [rulesHeap EXCEPT ![r] = RulesAfterGet(@, txt)]
          /\ robotsMap' = [robotsMap EXCEPT ![h] = r]
    /\ wk' = [wk EXCEPT ![w].pc = "check"]
    /\ UNCHANGED << api, handler, call, ret, dequeued, stopReceived, dropped, web, maxWorkers, maxDepth, cancelled, urlsToCrawl, results, resultsClosed,
                    closeCount, panicked, visitedURLs, wg, starter, now, emitted,
                    fetched, received >>

\* robotsRules.IsAllowed(urlStr); if allowed, RobotRules.Wait reads the clock
\* and r.lastAccess and goes to sleep until its wake-up time.
CheckAllowed(w) ==
    /\ wk[w].pc = "check"
    /\ LET r == rulesHeap[wk[w].rules]
       IN IF ~IsAllowed(r, wk[w].task.url)
          THEN wk' = [wk EXCEPT ![w].pc = "send", ![w].err = "disallowed by robots.txt"]
          ELSE wk' = [wk EXCEPT ![w].pc = "wait", ![w].wake = WakeTime(r, now)]
    /\ UNCHANGED << api, handler, call, ret, dequeued, stopReceived, dropped, web, maxWorkers, maxDepth, cancelled, urlsToCrawl, results, resultsClosed,
                    closeCount, panicked, visitedURLs, robotsMap, rulesHeap, wg,
                    starter, now, emitted, fetched, received >>

\* Variant: the status code of the response is not looked at.
ResponseIgnoresStatus(u) ==
    LET pg == PageOf(u)
    IN IF pg = NoResponse THEN [links |-> <<>>, err |-> "error fetching"]
       ELSE IF ~pg.html THEN [links |-> <<>>, err |-> ""]
       ELSE [links |-> pg.hrefs, err |-> ""]

\* Variant: the content type of the response is not looked at.
ResponseIgnoresContentType(u) ==
    LET pg == PageOf(u)
    IN IF pg = NoResponse THEN [links |-> <<>>, err |-> "error fetching"]
       ELSE IF pg.status # 200 THEN [links |-> <<>>, err |-> "unexpected status code"]
       ELSE [links |-> pg.hrefs, err |-> ""]

\* What processURL returns when httpClient.Do has returned.  http.NewRequest
\* parses the string url.Parse has accepted before, so it does not fail.
Response(u) ==
    LET pg == PageOf(u)
    IN IF pg = NoResponse THEN [links |-> <<>>, err |-> "error fetching"]
       ELSE IF pg.status # 200 THEN [links |-> <<>>, err |-> "unexpected status code"]
       ELSE IF ~pg.html THEN [links |-> <<>>, err |-> ""]
       ELSE [links |-> pg.hrefs, err |-> ""]

\* The sleep of RobotRules.Wait is over: r.lastAccess = time.Now(); then the
\* request is built and handed to httpClient.Do, where the worker waits.
Wait(w) ==
    /\ wk[w].pc = "wait"
    /\ now >= wk[w].wake
    /\ rulesHeap' = [rulesHeap EXCEPT ![wk[w].rules].lastAccess = now]
    /\ fetched' = BagAdd(fetched, [url |-> wk[w].task.url, time |-> now])
    /\ wk' = [wk EXCEPT ![w].pc = "get"]
    /\ UNCHANGED << api, handler, call, ret, dequeued, stopReceived, dropped, web, maxWorkers, maxDepth, cancelled, urlsToCrawl, results, resultsClosed,
                    closeCount, panicked, visitedURLs, robotsMap, wg, starter, now,
                    emitted, received >>

\* httpClient.Do returns and processURL returns its outcome.
Fetch(w) ==
    /\ wk[w].pc = "get"
    /\ LET rsp == Response(wk[w].task.url)
       IN wk' = [wk EXCEPT ![w].pc = "send", ![w].links = rsp.links, ![w].err = rsp.err]
    /\ UNCHANGED << api, handler, call, ret, dequeued, stopReceived, dropped, web, maxWorkers, maxDepth, cancelled, urlsToCrawl, results, resultsClosed,
                    closeCount, panicked, visitedURLs, robotsMap, rulesHeap, wg, starter,
                    now, emitted, fetched, received >>

\* Variant: the depth test is off by one.
QueuesChildrenInclusive(t, e) == t.depth <= maxDepth /\ e = ""

\* if task.Depth < c.maxDepth && err == nil
QueuesChildren(t, e) == t.depth < maxDepth /\ e = ""

\* c.results <- CrawlResult{URL: task.URL, Links: links, Error: err}
SendResult(w) ==
    /\ wk[w].pc = "send"
    /\ resultsClosed \/ Len(results) < ResultsCap
    /\ LET res == CrawlResult(wk[w].task.url, wk[w].links, wk[w].err)
       IN IF resultsClosed
          THEN /\ panicked' = TRUE
               /\ UNCHANGED << results, emitted >>
          ELSE /\ results' = Append(results, res)
               /\ emitted' = BagAdd(emitted, res)
               /\ UNCHANGED panicked
    /\ wk' = [wk EXCEPT ![w] =
                IF QueuesChildren(wk[w].task, wk[w].err) /\ wk[w].links # <<>>
                THEN [@ EXCEPT !.pc = "queue", !.idx = 1]
                ELSE IdleWorker("select")]
    /\ UNCHANGED << api, handler, call, ret, dequeued, stopReceived, dropped, web, maxWorkers, maxDepth, cancelled, urlsToCrawl, resultsClosed,
                    closeCount, visitedURLs, robotsMap, rulesHeap, wg, starter,
                    now, fetched, received >>

\* Variant: links of every scheme are enqueued.
CrawlableAny(u) == TRUE

\* if absURL.Scheme != "http" && absURL.Scheme != "https" { continue }
Crawlable(u) == u.scheme \in {"http", "https"}

\* Variant: the send to c.urlsToCrawl always succeeds.
OfferedUnbounded(q, t) == Append(q, t)

\* select { case c.urlsToCrawl <- task: default: } leaves the channel as it is
\* when its buffer is full.
Offered(q, t) == IF Len(q) < QueueCap THEN Append(q, t) ELSE q

\* One iteration of the loop of queueLinks: resolve the link, skip it if it
\* does not resolve or is not http(s), else offer it to the queue without
\* blocking and drop it when the queue is full.
queueLinks(w) ==
    /\ wk[w].pc = "queue"
    /\ LET t == wk[w].task
           res == resolveURL(t.url, wk[w].links[wk[w].idx])
           child == crawlTask(res.url, t.depth + 1)
       IN IF res.ok /\ Crawlable(res.url)
          THEN /\ urlsToCrawl' = Offered(urlsToCrawl, child)
               /\ dropped' = IF Offered(urlsToCrawl, child) = urlsToCrawl
                             THEN dropped \cup {res.url}
                             ELSE dropped
          ELSE UNCHANGED << urlsToCrawl, dropped >>
    /\ wk' = [wk EXCEPT ![w] = IF wk[w].idx = Len(wk[w].links)
                               THEN IdleWorker("select")
                               ELSE [@ EXCEPT !.idx = @ + 1]]
    /\ UNCHANGED << api, handler, call, ret, dequeued, stopReceived, web, maxWorkers, maxDepth, cancelled, results, resultsClosed, closeCount,
                    panicked, visitedURLs, robotsMap, rulesHeap, wg, starter, now,
                    emitted, fetched, received >>

(***************************************************************************)
(* The environment: the consumer of the stream, the cancellation, time.    *)
(***************************************************************************)
\* for result := range results (cmd/crawler main, handleStartCrawl)
Consume ==
    /\ results # <<>>
    /\ results' = Tail(results)
    /\ received' = received + 1
    /\ UNCHANGED << api, handler, call, ret, dequeued, stopReceived, dropped, web, maxWorkers, maxDepth, cancelled, urlsToCrawl, resultsClosed,
                    closeCount, panicked, visitedURLs, robotsMap, rulesHeap, wg, wk,
                    starter, now, emitted, fetched >>

\* cancel() of the context handed to Start
Cancel ==
    /\ ~cancelled
    /\ cancelled' = TRUE
    /\ UNCHANGED << api, handler, call, ret, dequeued, stopReceived, dropped, web, maxWorkers, maxDepth, urlsToCrawl, results, resultsClosed,
                    closeCount, panicked, visitedURLs, robotsMap, rulesHeap, wg, wk,
                    starter, now, emitted, fetched, received >>

\* One second passes.  The clock runs freely up to MaxTime, and beyond it for
\* as long as some worker sleeps in RobotRules.Wait.
Tick ==
    /\ now < MaxTime \/ \E w \in Workers : wk[w].pc = "wait" /\ wk[w].wake > now
    /\ now' = now + 1
    /\ UNCHANGED << api, handler, call, ret, dequeued, stopReceived, dropped, web, maxWorkers, maxDepth, cancelled, urlsToCrawl, results, resultsClosed,
                    closeCount, panicked, visitedURLs, robotsMap, rulesHeap, wg, wk,
                    starter, emitted, fetched, received >>

\* The steps of the crawler and of its surroundings but for the consumer of
\* the result stream.
Crawl ==
    \/ SendSeed
    \/ CloseResults
    \/ \E w \in Workers : WorkerExit(w)
    \/ \E w \in Workers : Dequeue(w)
    \/ \E w \in Workers : Claim(w)
    \/ \E w \in Workers : LookupRules(w)
    \/ \E w \in Workers : FetchRobots(w)
    \/ \E w \in Workers : CheckAllowed(w)
    \/ \E w \in Workers : Wait(w)
    \/ \E w \in Workers : Fetch(w)
    \/ \E w \in Workers : SendResult(w)
    \/ \E w \in Workers : queueLinks(w)
    \/ Cancel
    \/ Tick

Next == Crawl \/ Consume

Spec == Init /\ [][Next]_vars

\* The crawl of the scenario: seed https://example.com/, maxDepth 1.
InitScenario == InitWith(ScenarioWebs, 1..MaxWorkers, {1}) /\ NoCalls

SpecScenario == InitScenario /\ [][Next]_vars

\* NewCrawler and Start take any worker count and any depth limit, also no
\* worker at all and a negative depth limit.
InitAnyConfig == InitWith(Webs, 0..MaxWorkers, (-1)..MaxDepthBound) /\ NoCalls

SpecAnyConfig == InitAnyConfig /\ [][Next]_vars

\* The crawl of the robots scenario, maxDepth 1.
InitRobotsScenario == InitWith(RobotsScenarioWebs, 1..MaxWorkers, {1}) /\ NoCalls

SpecRobotsScenario == InitRobotsScenario /\ [][Next]_vars

\* Start takes any string as its start URL, also one that does not parse.
InitAnySeed ==
    InitWith(Webs \cup MalformedSeedWebs, 1..MaxWorkers, 0..MaxDepthBound) /\ NoCalls

SpecAnySeed == InitAnySeed /\ [][Next]_vars

(***************************************************************************)
(* The same program under fair scheduling: every goroutine that can take a *)
(* step eventually takes one, the consumer keeps reading, time passes.     *)
(* Nothing forces a cancellation.                                          *)
(***************************************************************************)
WorkerStep(w) ==
    \/ WorkerExit(w) \/ Dequeue(w) \/ Claim(w) \/ LookupRules(w) \/ FetchRobots(w)
    \/ CheckAllowed(w) \/ Wait(w) \/ Fetch(w) \/ SendResult(w) \/ queueLinks(w)

CrawlFairness ==
    /\ WF_vars(SendSeed)
    /\ WF_vars(CloseResults)
    /\ \A w \in Workers : WF_vars(WorkerStep(w))
    /\ WF_vars(Tick)

Fairness == CrawlFairness /\ WF_vars(Consume)

FairSpec == Init /\ [][Next]_vars /\ Fairness

(***************************************************************************)
(* Properties.                                                             *)
(***************************************************************************)
Spawned == 1..maxWorkers

\* The worker holds a task it has dequeued.
Processing(w) ==
    wk[w].pc \in {"sleep", "robots", "robotsGet", "check", "wait", "get", "send", "queue"}

\* The worker has won the claim for its task's URL and has not fetched it yet.
PastClaim(w) == wk[w].pc \in {"robots", "robotsGet", "check", "wait"}

Returned(w) == wk[w].pc = "done"

FetchedURL(u) == \E f \in BagToSet(fetched) : f.url = u

\* C1: the GET of a page is performed at most once per URL string, and of
\* the workers holding tasks with the same URL at most one is past the claim
\* step, none once the URL has been fetched.
C1_FetchAtMostOnce ==
    /\ \A f \in BagToSet(fetched) : CopiesIn(f, fetched) = 1
    /\ \A f, g \in BagToSet(fetched) : f.url = g.url => f = g
    /\ \A v, w \in Spawned :
          (v # w /\ PastClaim(v) /\ PastClaim(w)) => wk[v].task.url # wk[w].task.url
    /\ \A w \in Spawned : PastClaim(w) => ~FetchedURL(wk[w].task.url)

\* Two workers hold tasks with the same URL: one won the claim, the other
\* lost it and is about to leave processURL with (nil, nil).
C1_Witness ==
    \E v, w \in Spawned :
        /\ v # w
        /\ wk[v].task.url = wk[w].task.url
        /\ PastClaim(v)
        /\ wk[w].pc = "send" /\ wk[w].err = "" /\ wk[w].links = <<>>
        /\ wk[w].task.url \in visitedURLs

\* C2: no URL appears more than once among the CrawlResults sent on the
\* result stream.
C2_OneResultPerURL ==
    /\ \A r \in BagToSet(emitted) : CopiesIn(r, emitted) = 1
    /\ \A r, q \in BagToSet(emitted) : r.url = q.url => r = q

\* No task is queued, no worker is processing one, the seed has been sent.
Quiescent ==
    /\ starter # "seed"
    /\ urlsToCrawl = <<>>
    /\ \A w \in Spawned : ~Processing(w)

\* C3: in a run that is never cancelled, once no task is queued and no
\* worker is processing one, the workers leave their loop and the result
\* stream is eventually closed.
C3_QuiescenceCloses ==
    (Quiescent /\ ~cancelled) ~>
        (cancelled \/ (resultsClosed /\ \A w \in Spawned : Returned(w)))

\* C4: the result stream is not closed while a task is queued or a worker is
\* processing a task, unless the run has been cancelled.
C4_NoPrematureClose ==
    (resultsClosed /\ (urlsToCrawl # <<>> \/ \E w \in Spawned : Processing(w)))
        => cancelled

\* The stream has been closed with tasks left in the queue.
C4_Witness == resultsClosed /\ urlsToCrawl # <<>> /\ BagToSet(emitted) # {}

\* C5: after the cancellation signal, with a consumer that keeps reading and
\* fair scheduling, every worker eventually returns and the result stream is
\* eventually closed.
C5_CancelCloses ==
    cancelled ~> (resultsClosed /\ \A w \in Spawned : Returned(w))

\* A run with two workers was cancelled while the queue held tasks; both
\* workers have returned and the stream is closed.
C5_Witness ==
    /\ cancelled /\ resultsClosed
    /\ maxWorkers = 2 /\ \A w \in Spawned : Returned(w)
    /\ urlsToCrawl # <<>>
    /\ BagToSet(fetched) # {}

\* C6: once the cancellation signal has fired, no worker dequeues a further
\* task and no worker starts a page fetch.
C6_NoWorkAfterCancel ==
    [][cancelled =>
         \A w \in Workers :
            /\ ~(wk[w].pc = "select" /\ wk'[w].pc = "sleep")
            /\ ~(wk[w].pc = "wait" /\ wk'[w].pc = "get")]_vars

\* C7: the result stream is closed at most once, only after every worker
\* has returned, and no worker sends on the closed stream.
C7_CloseOnceAfterWorkers ==
    /\ closeCount <= 1
    /\ resultsClosed <=> closeCount = 1
    /\ resultsClosed => \A w \in Spawned : Returned(w)
    /\ ~panicked

\* The stream was closed after results had been sent on it.
C7_Witness ==
    /\ closeCount = 1
    /\ maxWorkers = 2
    /\ BagCardinality(emitted) >= 2

\* C8: every task in the queue and every task held by a worker has a depth
\* of at most maxDepth.
C8_DepthBounded ==
    /\ \A i \in 1..Len(urlsToCrawl) : urlsToCrawl[i].depth <= maxDepth
    /\ \A w \in Spawned : Processing(w) => wk[w].task.depth <= maxDepth

\* A worker holds a task at the depth limit whose page has links.
C8_Witness ==
    \E w \in Spawned :
        /\ wk[w].pc = "send"
        /\ wk[w].task.depth = maxDepth
        /\ wk[w].task.depth > 0
        /\ wk[w].links # <<>>

\* The crawl-delay in force for a host: that of the rules parsed from its
\* robots.txt, the default when robots.txt cannot be fetched.
EffectiveDelay(h) ==
    (IF RobotsTxt(h).ok THEN Parse(NewRobotRules, RobotsTxt(h).content)
     ELSE NewRobotRules).crawlDelay

Gap(a, b) == IF a >= b THEN a - b ELSE b - a

\* C9: per host, the start times of two page fetches are separated by at
\* least the host's effective crawl-delay.
C9_HostSpacing ==
    /\ \A f \in BagToSet(fetched) : CopiesIn(f, fetched) = 1
    /\ \A f, g \in BagToSet(fetched) :
          (f # g /\ f.url.host = g.url.host)
              => Gap(f.time, g.time) >= EffectiveDelay(f.url.host)

\* The URL is disallowed by the rules of its host.
Disallowed(u) ==
    /\ u.valid /\ u.host \in Hosts
    /\ ~IsAllowed(IF RobotsTxt(u.host).ok
                  THEN Parse(NewRobotRules, RobotsTxt(u.host).content)
                  ELSE NewRobotRules, u)

\* C10: a URL that its host's robots rules disallow is never fetched, every
\* CrawlResult for it carries the robots-block error and no links, and no
\* child task is enqueued from it.
C10_DisallowedBlocked ==
    /\ \A f \in BagToSet(fetched) : ~Disallowed(f.url)
    /\ \A r \in BagToSet(emitted) :
          Disallowed(r.url) => (r.err = "disallowed by robots.txt" /\ r.links = <<>>)
    /\ \A w \in Spawned : wk[w].pc = "queue" => ~Disallowed(wk[w].task.url)

(***************************************************************************)
(* The crawl behind a WebSocket connection (cmd/api): the read loop of     *)
(* handleWebSocket runs beside the crawl that handleStartCrawl started.    *)
(***************************************************************************)
\* case "stop": log.Println("Received stop request")
ReceiveStop ==
    /\ ~stopReceived
    /\ stopReceived' = TRUE
    /\ UNCHANGED << api, handler, call, ret, dequeued, dropped, web, maxWorkers, maxDepth, cancelled,
                    urlsToCrawl, results,
                    resultsClosed, closeCount, panicked, visitedURLs, robotsMap,
                    rulesHeap, wg, wk, starter, now, emitted, fetched, received >>

\* for result := range results: the goroutine takes a result off the
\* channel and enters conn.WriteJSON(resp).
Receive ==
    /\ handler = "ranging"
    /\ results # <<>>
    /\ results' = Tail(results)
    /\ received' = received + 1
    /\ handler' = "writing"
    /\ UNCHANGED << api, call, ret, dequeued, stopReceived, dropped, web, maxWorkers,
                    maxDepth, cancelled, urlsToCrawl, resultsClosed, closeCount,
                    panicked, visitedURLs, robotsMap, rulesHeap, wg, wk, starter, now,
                    emitted, fetched >>

\* conn.WriteJSON(resp) returns nil: the goroutine sleeps 50 ms and goes
\* back to the range.
WriteDone ==
    /\ handler = "writing"
    /\ handler' = "ranging"
    /\ UNCHANGED << api, call, ret, dequeued, stopReceived, dropped, web, maxWorkers,
                    maxDepth, cancelled, urlsToCrawl, results, resultsClosed, closeCount,
                    panicked, visitedURLs, robotsMap, rulesHeap, wg, wk, starter, now,
                    emitted, fetched, received >>

\* conn.WriteJSON(resp) returns an error: the goroutine returns, its
\* deferred cancel() runs, nobody reads the results any more.
WriteFails ==
    /\ handler = "writing"
    /\ handler' = "failed"
    /\ cancelled' = TRUE
    /\ UNCHANGED << api, call, ret, dequeued, stopReceived, dropped, web, maxWorkers,
                    maxDepth, urlsToCrawl, results, resultsClosed, closeCount, panicked,
                    visitedURLs, robotsMap, rulesHeap, wg, wk, starter, now, emitted,
                    fetched, received >>

\* The range over results ends on the closed, drained channel: the
\* goroutine enters conn.WriteJSON(complete).
RangeEnds ==
    /\ handler = "ranging"
    /\ resultsClosed
    /\ results = <<>>
    /\ handler' = "completing"
    /\ UNCHANGED << api, call, ret, dequeued, stopReceived, dropped, web, maxWorkers,
                    maxDepth, cancelled, urlsToCrawl, results, resultsClosed, closeCount,
                    panicked, visitedURLs, robotsMap, rulesHeap, wg, wk, starter, now,
                    emitted, fetched, received >>

\* conn.WriteJSON(complete) returns, with or without an error: the
\* goroutine returns, cancel() runs.
SendComplete ==
    /\ handler = "completing"
    /\ \E ok \in BOOLEAN : handler' = IF ok THEN "complete" ELSE "failed"
    /\ cancelled' = TRUE
    /\ UNCHANGED << api, call, ret, dequeued, stopReceived, dropped, web, maxWorkers,
                    maxDepth, urlsToCrawl, results, resultsClosed, closeCount, panicked,
                    visitedURLs, robotsMap, rulesHeap, wg, wk, starter, now, emitted,
                    fetched, received >>

NextWS ==
    Crawl \/ ReceiveStop \/ Receive \/ WriteDone \/ WriteFails \/ RangeEnds \/ SendComplete

SpecWS == Init /\ [][NextWS]_vars

\* The crawl goroutine of the handler keeps running: it takes every result
\* that is there, and every write to the connection returns.
HandlerFairness ==
    /\ WF_vars(Receive)
    /\ WF_vars(WriteDone \/ WriteFails)
    /\ WF_vars(RangeEnds)
    /\ WF_vars(SendComplete)

FairSpecWS == SpecWS /\ CrawlFairness /\ HandlerFairness

(***************************************************************************)
(* Frontier queue, failures, robots cache, configuration, stop request.    *)
(***************************************************************************)
\* C11: the frontier queue never holds more tasks than its capacity, and a
\* worker that is enqueuing the children of a page can always take its next
\* step, whether the queue is full or not.
C11_QueueBoundedNonBlocking ==
    /\ Len(urlsToCrawl) <= QueueCap
    /\ \A w \in Spawned : wk[w].pc = "queue" => ENABLED queueLinks(w)

\* A link has been offered to the full queue and the queue is still full.
C11_Witness == dropped # {} /\ Len(urlsToCrawl) = QueueCap

\* The result stream carries an entry that reports the drop of u.
DropReported(u) ==
    \E r \in BagToSet(emitted) : r.url = u /\ r.err = "URL queue full"

\* C12: every child that was dropped on a full queue is reported on the
\* result stream by an entry of its own; when the crawl has come to rest no
\* drop is left unreported.
C12_DropsReported == Quiescent => \A u \in dropped : DropReported(u)

\* At most one CrawlResult has been sent for u.
AtMostOneResult(u) ==
    \A r, q \in BagToSet(emitted) :
        (r.url = u /\ q.url = u) => (r = q /\ CopiesIn(r, emitted) = 1)

\* C13: in the scenario (seed https://example.com/, maxDepth 1, links /a, /a,
\* https://other.com/b) the stream carries at most one result for /a and at
\* most one for https://other.com/b, and no task of depth 2 exists.
C13_ScenarioResults ==
    /\ AtMostOneResult(Ex(PA))
    /\ AtMostOneResult(Ot(PB))
    /\ \A i \in 1..Len(urlsToCrawl) : urlsToCrawl[i].depth <= 1
    /\ \A w \in Spawned : Processing(w) => wk[w].task.depth <= 1

\* The worker has performed the GET of its task's page and holds the outcome.
HasFetched(w) ==
    /\ wk[w].pc \in {"send", "queue"}
    /\ wk[w].rules # 0
    /\ wk[w].err # "disallowed by robots.txt"

FetchFailed(u) == PageOf(u).status # 200

\* C14: a worker whose GET ended in a non-success status holds an error and
\* no links and never enqueues children; no worker leaves its loop unless
\* the crawl is cancelled; and under fair scheduling the tasks that are
\* queued when a failure has been reported are all dequeued, unless the
\* crawl is cancelled.
C14_FailureIsolated ==
    /\ [](\A w \in Spawned :
            /\ (HasFetched(w) /\ FetchFailed(wk[w].task.url))
                    => (wk[w].pc = "send" /\ wk[w].err # "" /\ wk[w].links = <<>>)
            /\ Returned(w) => cancelled)
    /\ ((urlsToCrawl # <<>> /\ \E r \in BagToSet(emitted) : r.err = "unexpected status code")
            ~> (urlsToCrawl = <<>> \/ cancelled))

\* A worker holds the error of a failed GET while a sibling task is queued.
C14_Witness ==
    \E w \in Spawned :
        /\ HasFetched(w) /\ FetchFailed(wk[w].task.url)
        /\ wk[w].err = "unexpected status code"
        /\ urlsToCrawl # <<>>

RobotsFails(h) == ~RobotsTxt(h).ok

DefaultPermissive(r) == r.disallowedPaths = <<>> /\ r.crawlDelay = DefaultCrawlDelay

\* C15: for a host whose robots.txt cannot be fetched the cache holds, and
\* every worker is handed, rules with an empty disallow list and a delay of
\* one second; no result of that host carries a robots error, and the worker
\* that holds the rules goes on to fetch the page.
C15_RobotsFailurePermissive ==
    /\ \A h \in Hosts :
         (RobotsFails(h) /\ robotsMap[h] # 0) => DefaultPermissive(rulesHeap[robotsMap[h]])
    /\ \A w \in Spawned :
         (wk[w].rules # 0 /\ RobotsFails(wk[w].task.url.host))
            => /\ DefaultPermissive(rulesHeap[wk[w].rules])
               /\ wk[w].pc \in {"send", "queue"} => FetchedURL(wk[w].task.url)
    /\ \A r \in BagToSet(emitted) :
         RobotsFails(r.url.host) => r.err \notin {"robots rules", "disallowed by robots.txt"}

\* A page of a host whose robots.txt could not be fetched has been fetched
\* under the cached rules.
C15_Witness ==
    \E f \in BagToSet(fetched) :
        RobotsFails(f.url.host) /\ robotsMap[f.url.host] # 0

\* C16: two URLs that differ only in their fragment are not both fetched.
C16_FragmentsDeduplicated ==
    \A f, g \in BagToSet(fetched) : StripFrag(f.url) = StripFrag(g.url) => f.url = g.url

\* C17: the rules object the cache holds for a host is never replaced.
C17_RulesStoredOnce ==
    [][\A h \in Hosts : robotsMap[h] # 0 => robotsMap'[h] = robotsMap[h]]_vars

NonHTML(u) == PageOf(u).status = 200 /\ ~PageOf(u).html

\* C18: a worker that has fetched a page that is not HTML holds no links and
\* no error and does not enqueue children, and every result sent for such a
\* page has no links and no error.
C18_NonHTMLNoLinks ==
    /\ \A w \in Spawned :
         (HasFetched(w) /\ NonHTML(wk[w].task.url))
            => (wk[w].pc = "send" /\ wk[w].links = <<>> /\ wk[w].err = "")
    /\ \A r \in BagToSet(emitted) : NonHTML(r.url) => (r.links = <<>> /\ r.err = "")

\* The result of a fetched page that is not HTML is on the stream.
C18_Witness ==
    \E r \in BagToSet(emitted) : NonHTML(r.url) /\ FetchedURL(r.url)

\* C19: a crawl configured with no worker or with a negative depth limit does
\* not start: no seed is sent, no result is sent, the stream is not closed.
C19_InvalidConfigFailsFast ==
    (maxWorkers <= 0 \/ maxDepth < 0)
        => (starter = "seed" /\ emitted = EmptyBag /\ ~resultsClosed)

\* C20: once the server has read a "stop" message the crawl is cancelled.
C20_StopCancels == stopReceived ~> cancelled

(***************************************************************************)
(* The methods of RobotRules called on their own, on arguments drawn from  *)
(* small sets: one call per run, IsAllowed or Parse.                       *)
(***************************************************************************)
MaxPatterns == 2
MaxLines == 3

PDotDir == <<"/", "d", ".", "1", "/", "p">>

TestPaths == { <<>>, PRoot, <<"/", "p">>, <<"/", "p", "/">>, PPriv, <<"/", "p", ".", "h">>,
               <<"/", "q">>, PDotDir, <<"/", "d", ".", "1", "/", "p", ".", "h">>,
               <<"/", "a", "\n", "b", ".", "h">> }

TestPatterns == { <<"/", "p", "/">>, <<"/", "p">>, <<"/", "d", ".", "1", "/", "p", "/">>,
                  <<"/", "*", ".", "h">> }

TestLines == { Line("", <<>>),
               Line("user-agent", <<"*">>),
               Line("user-agent", <<"g", "O", "c">>),
               Line("user-agent", <<"b", "o", "t">>),
               Line("disallow", <<"/", "p">>),
               Line("disallow", <<>>),
               Line("crawl-delay", <<"3">>),
               Line("crawl-delay", <<"2", "x">>),
               Line("crawl-delay", <<"0">>),
               Line("crawl-delay", <<"-", "1">>),
               Line("crawl-delay", <<"x">>) }

SeqsUpTo(S, n) == UNION { [1..k -> S] : k \in 0..n }

IsAllowedCalls ==
    { [fn |-> "IsAllowed", patterns |-> ps, path |-> pa, content |-> <<>>] :
        ps \in SeqsUpTo(TestPatterns, MaxPatterns), pa \in TestPaths }

ParseCalls ==
    { [fn |-> "Parse", patterns |-> <<>>, path |-> <<>>, content |-> c] :
        c \in SeqsUpTo(TestLines, MaxLines) }

InitRules ==
    /\ InitWith({1}, {1}, {0})
    /\ call \in IsAllowedCalls \cup ParseCalls
    /\ ret = NoRet

\* r.IsAllowed(urlStr) on rules with the patterns of the call
CallIsAllowed ==
    /\ call.fn = "IsAllowed"
    /\ ~ret.done
    /\ ret' = [done |-> TRUE,
               allowed |-> IsAllowed([NewRobotRules EXCEPT !.disallowedPaths = call.patterns],
                                     Ex(call.path)),
               rules |-> NewRobotRules]
    /\ UNCHANGED << api, handler, call, dequeued, stopReceived, dropped, web, maxWorkers, maxDepth,
                    cancelled, urlsToCrawl, results, resultsClosed, closeCount, panicked,
                    visitedURLs, robotsMap, rulesHeap, wg, wk, starter, now, emitted,
                    fetched, received >>

\* rules := NewRobotRules(c.userAgent); rules.Parse(robotsURL, content)
CallParse ==
    /\ call.fn = "Parse"
    /\ ~ret.done
    /\ ret' = [done |-> TRUE, allowed |-> FALSE, rules |-> Parse(NewRobotRules, call.content)]
    /\ UNCHANGED << api, handler, call, dequeued, stopReceived, dropped, web, maxWorkers, maxDepth,
                    cancelled, urlsToCrawl, results, resultsClosed, closeCount, panicked,
                    visitedURLs, robotsMap, rulesHeap, wg, wk, starter, now, emitted,
                    fetched, received >>

NextRules == CallIsAllowed \/ CallParse

SpecRules == InitRules /\ [][NextRules]_vars

(***************************************************************************)
(* Registry, robots scenario, children, results, links, malformed URLs.    *)
(***************************************************************************)
\* Crawler.VisitedCount: the number of keys of c.visitedURLs
VisitedCount == Cardinality(visitedURLs)

\* In this step worker w wins the claim for the URL of its task.
ClaimWon(w) == wk[w].pc = "sleep" /\ wk'[w].pc = "robots"

\* C21: every URL of an emitted CrawlResult is in the visited registry; no
\* step removes a URL from the registry or lowers VisitedCount; VisitedCount
\* grows by one exactly in the steps in which a worker wins a claim.
C21_RegistryGrows ==
    /\ [](\A r \in BagToSet(emitted) : r.url \in visitedURLs)
    /\ [][/\ visitedURLs \subseteq visitedURLs'
          /\ VisitedCount' >= VisitedCount
          /\ VisitedCount' =
                VisitedCount + (IF \E w \in Spawned : ClaimWon(w) THEN 1 ELSE 0)]_vars

\* Two URLs are in the registry and results have been sent.
C21_Witness == VisitedCount >= 2 /\ emitted # EmptyBag

\* The rules of the scenario host, as parsed from its robots.txt.
ScenarioRules == Parse(NewRobotRules, RobotsTxt("example.com").content)

\* C22: under the scenario's robots.txt (disallow of the private prefix,
\* crawl-delay 2) the private page is disallowed and never fetched and each
\* of its results carries the robots-block error; the public page is allowed
\* and its fetch starts at least 2 seconds after every other fetch of a page
\* of the host.
C22_RobotsScenario ==
    /\ ScenarioRules.crawlDelay = 2
    /\ ~IsAllowed(ScenarioRules, Ex(PPriv))
    /\ IsAllowed(ScenarioRules, Ex(PA))
    /\ ~FetchedURL(Ex(PPriv))
    /\ \A r \in BagToSet(emitted) : r.url = Ex(PPriv) => r.err = "disallowed by robots.txt"
    /\ \A f, g \in BagToSet(fetched) :
          (f.url = Ex(PA) /\ g # f /\ g.url.host = f.url.host)
              => f.time >= g.time + ScenarioRules.crawlDelay

\* The public page has been fetched and the private page has its result.
C22_Witness ==
    /\ FetchedURL(Ex(PA))
    /\ \E r \in BagToSet(emitted) : r.url = Ex(PPriv)

\* The child tasks queueLinks has to offer for the hrefs of a page, in order.
RECURSIVE ExpectedOffers(_, _)
ExpectedOffers(t, hrefs) ==
    IF hrefs = <<>> THEN <<>>
    ELSE LET res == resolveURL(t.url, Head(hrefs))
         IN (IF res.ok /\ (res.url.scheme = "http" \/ res.url.scheme = "https")
             THEN << crawlTask(res.url, t.depth + 1) >>
             ELSE <<>>) \o ExpectedOffers(t, Tail(hrefs))

\* The queue after the tasks ts have been offered to it one by one.
RECURSIVE OfferAll(_, _)
OfferAll(q, ts) ==
    IF ts = <<>> THEN q
    ELSE OfferAll(IF Len(q) < QueueCap THEN Append(q, Head(ts)) ELSE q, Tail(ts))

\* The task is one a worker may hold: an http(s) URL within the depth limit
\* that is the start URL or a link of a fetched page.
WellFormedTask(t) ==
    /\ t.url.valid
    /\ t.url.scheme \in {"http", "https"}
    /\ t.depth <= maxDepth
    /\ \/ t.depth = 0 /\ t.url = Seed
       \/ /\ t.depth > 0
          /\ \E f \in BagToSet(fetched) :
                \E i \in 1..Len(PageOf(f.url).hrefs) :
                    resolveURL(f.url, PageOf(f.url).hrefs[i]).url = t.url

\* C23: only a worker whose task lies below the depth limit and whose fetch
\* returned an HTML page without error enqueues children; each of its steps
\* offers the child of depth d+1 of the next link exactly when the link
\* resolves to an http or https URL; every task queued or held is such a
\* child or the seed.
C23_ChildrenEnqueued ==
    /\ [](/\ \A i \in 1..Len(urlsToCrawl) : WellFormedTask(urlsToCrawl[i])
          /\ \A w \in Spawned :
                /\ Processing(w) => WellFormedTask(wk[w].task)
                /\ wk[w].pc = "queue" =>
                      /\ wk[w].task.depth < maxDepth
                      /\ wk[w].err = ""
                      /\ PageOf(wk[w].task.url).status = 200
                      /\ PageOf(wk[w].task.url).html
                      /\ wk[w].links = PageOf(wk[w].task.url).hrefs)
    /\ [][\A w \in Spawned :
            (wk[w].pc = "queue" /\ wk'[w] # wk[w])
                => urlsToCrawl' =
                      OfferAll(urlsToCrawl,
                               ExpectedOffers(wk[w].task, << wk[w].links[wk[w].idx] >>))]_vars

\* A worker has passed over a mailto link and a child of its page is queued.
C23_Witness ==
    \E w \in Spawned :
        /\ wk[w].pc = "queue"
        /\ \E i \in 1..(wk[w].idx - 1) : wk[w].links[i].scheme = "mailto"
        /\ \E j \in 1..Len(urlsToCrawl) : urlsToCrawl[j].depth = wk[w].task.depth + 1

\* C24: the dedup claim comes after the robots check, so no URL that its
\* host's rules disallow is in the visited registry.
C24_ClaimAfterRobots == \A u \in visitedURLs : ~Disallowed(u)

\* The worker holds a task and has not sent its result yet.
BeforeSend(w) ==
    wk[w].pc \in {"sleep", "robots", "robotsGet", "check", "wait", "get", "send"}

\* C25: the number of results emitted is the number of tasks dequeued less
\* the tasks whose result is still to be sent; a worker leaves its send by
\* emitting the one result of its task, dequeues only from its select, and
\* comes back to its select only after that send.
C25_OneResultPerTask ==
    /\ [](BagCardinality(emitted) + Cardinality({w \in Spawned : BeforeSend(w)}) = dequeued)
    /\ [][\A w \in Spawned :
            /\ (wk[w].pc = "send" /\ wk'[w].pc # "send")
                  => emitted' = BagAdd(emitted, [url |-> wk[w].task.url,
                                                 links |-> wk[w].links, err |-> wk[w].err])
            /\ (wk[w].pc # "sleep" /\ wk'[w].pc = "sleep") => wk[w].pc = "select"
            /\ (wk[w].pc # "select" /\ wk'[w].pc = "select")
                  => wk[w].pc \in {"send", "queue"}]_vars

\* Two tasks have been dequeued and the results of both have been sent.
C25_Witness == dequeued >= 2 /\ BagCardinality(emitted) = dequeued

\* C26: the links of a CrawlResult are the hrefs of the page resolved against
\* the page's URL, in document order.
C26_LinksResolved ==
    \A r \in BagToSet(emitted) :
        \A i \in 1..Len(r.links) :
            /\ i <= Len(PageOf(r.url).hrefs)
            /\ r.links[i] = resolveURL(r.url, PageOf(r.url).hrefs[i]).url

\* C27: no link that does not parse or resolve is enqueued, and no
\* CrawlResult is sent for a URL that does not parse.
C27_MalformedSkipped ==
    /\ \A i \in 1..Len(urlsToCrawl) :
          urlsToCrawl[i].depth > 0 => urlsToCrawl[i].url.valid
    /\ \A w \in Spawned : (Processing(w) /\ wk[w].task.depth > 0) => wk[w].task.url.valid
    /\ \A r \in BagToSet(emitted) : r.url.valid

(***************************************************************************)
(* RobotRules.IsAllowed and RobotRules.Parse as functions of their input.  *)
(***************************************************************************)
\* The part of a path after its last separator.
RECURSIVE FinalSegment(_)
FinalSegment(path) ==
    IF path = <<>> \/ path[Len(path)] = "/" THEN <<>>
    ELSE Append(FinalSegment(SubSeq(path, 1, Len(path) - 1)), path[Len(path)])

\* The path with a trailing separator appended exactly when it has none and
\* its final segment contains no dot.
PathWithSeparator(path) ==
    IF ~HasSuffix(path, "/") /\ ~ContainsChar(FinalSegment(path), ".")
    THEN Append(path, "/")
    ELSE path

\* C28: IsAllowed returns false exactly when some disallow pattern matches
\* at the start of the path normalized by its final segment, and true when
\* there is no pattern or none matches.
C28_IsAllowedIff ==
    (call.fn = "IsAllowed" /\ ret.done)
        => (ret.allowed <=>
                ~\E i \in 1..Len(call.patterns) :
                    MatchString(call.patterns[i], PathWithSeparator(call.path)))

\* The value of a User-agent line is "*" or, letter case apart, a substring
\* of the crawler's agent string.
AgentApplies(value) ==
    \/ value = <<"*">>
    \/ \E i \in 0..(Len(UserAgent) - Len(value)) :
          ToLower(SubSeq(UserAgent, i + 1, i + Len(value))) = ToLower(value)

\* Line i lies in a block whose most recent User-agent line is applicable.
InApplicableBlock(lines, i) ==
    \E j \in 1..(i - 1) :
        /\ lines[j].field = "user-agent"
        /\ AgentApplies(lines[j].value)
        /\ \A k \in (j + 1)..(i - 1) : lines[k].field # "user-agent"

\* The values of the lines with field f in applicable blocks, from line i on.
RECURSIVE EffectiveValues(_, _, _)
EffectiveValues(lines, f, i) ==
    IF i > Len(lines) THEN <<>>
    ELSE (IF lines[i].field = f /\ InApplicableBlock(lines, i)
          THEN << lines[i].value >>
          ELSE <<>>) \o EffectiveValues(lines, f, i + 1)

\* The lines from line i on without the directives outside applicable blocks.
RECURSIVE EffectiveLines(_, _)
EffectiveLines(lines, i) ==
    IF i > Len(lines) THEN <<>>
    ELSE (IF lines[i].field = "user-agent" \/ InApplicableBlock(lines, i)
          THEN << lines[i] >>
          ELSE <<>>) \o EffectiveLines(lines, i + 1)

NonEmpty(v) == v # <<>>

\* C29: the patterns Parse stores are the non-empty Disallow values of the
\* applicable blocks, in order; without a Crawl-delay line in an applicable
\* block the delay is the default; and the directives before any User-agent
\* line or in a block that is not applicable change nothing in the outcome.
C29_ApplicableBlocksOnly ==
    (call.fn = "Parse" /\ ret.done)
        => /\ ret.rules.disallowedPaths =
                  SelectSeq(EffectiveValues(call.content, "disallow", 1), NonEmpty)
           /\ EffectiveValues(call.content, "crawl-delay", 1) = <<>>
                  => ret.rules.crawlDelay = DefaultCrawlDelay
           /\ ret.rules = Parse(NewRobotRules, EffectiveLines(call.content, 1))

\* A parse that has kept one Disallow line and has passed over another that
\* is not in an applicable block.
C29_Witness ==
    /\ call.fn = "Parse" /\ ret.done
    /\ ret.rules.disallowedPaths # <<>>
    /\ \E i \in 1..Len(call.content) :
          /\ call.content[i].field = "disallow"
          /\ call.content[i].value # <<>>
          /\ ~InApplicableBlock(call.content, i)

\* The value is a positive decimal number.
PositiveNumber(v) ==
    /\ v # <<>>
    /\ \A i \in 1..Len(v) : IsDigit(v[i])
    /\ ScanDigits(v, 0) > 0

\* C30: the delay after Parse is the number of the last Crawl-delay line of
\* an applicable block whose value is a positive number, and the default if
\* there is none; any other value is ignored.
C30_CrawlDelayParsed ==
    (call.fn = "Parse" /\ ret.done)
        => LET valid == SelectSeq(EffectiveValues(call.content, "crawl-delay", 1),
                                  PositiveNumber)
           IN ret.rules.crawlDelay =
                 IF valid = <<>> THEN DefaultCrawlDelay
                 ELSE ScanDigits(valid[Len(valid)], 0)

(***************************************************************************)
(* The APIServer (cmd/api): POST /crawl requests, each with its goroutine  *)
(* that broadcasts under clientsLock, and the crawls started by 'start'    *)
(* messages on one WebSocket connection, each with its goroutine that      *)
(* writes to the connection.                                               *)
(***************************************************************************)
ServerOnly ==
    UNCHANGED << handler, call, ret, dequeued, stopReceived, dropped, web, maxWorkers,
                 maxDepth, cancelled, urlsToCrawl, results, resultsClosed, closeCount,
                 panicked, visitedURLs, robotsMap, rulesHeap, wg, wk, starter, now,
                 emitted, fetched, received >>

\* s.crawler = crawler.NewCrawler(...); go func() { ... }()
HandleCrawl(r) ==
    /\ api.post[r] = "new"
    /\ api' = [api EXCEPT !.crawler = r, !.post[r] = "go"]
    /\ ServerOnly

\* s.broadcast: s.clientsLock.Lock()
LockClients(r) ==
    /\ api.post[r] \in {"go", "ranging"}
    /\ api.lock = 0
    /\ api' = [api EXCEPT !.lock = r, !.post[r] = "locked"]
    /\ ServerOnly

\* s.broadcast: the connection is among s.clients, client.WriteJSON(message)
\* starts
BeginBroadcast(r) ==
    /\ api.post[r] = "locked"
    /\ api.clients
    /\ api' = [api EXCEPT !.post[r] = "writing"]
    /\ ServerOnly

\* s.broadcast: client.WriteJSON(message) returns, after an error
\* client.Close() and delete(s.clients, client); or s.clients is empty; the
\* lock is released.  A write to a closed connection returns an error.
EndBroadcast(r) ==
    /\ \/ api.post[r] = "writing"
       \/ api.post[r] = "locked" /\ ~api.clients
    /\ \E ok \in BOOLEAN :
          /\ api.post[r] = "locked" => ok
          /\ (api.post[r] = "writing" /\ api.conn = "closed") => ~ok
          /\ api' = [api EXCEPT !.lock = 0,
                                !.clients = @ /\ ok,
                                !.conn = IF ok THEN @ ELSE "closed",
                                !.post[r] = IF api.inst[r] = 0 THEN "start" ELSE "ranging"]
    /\ ServerOnly

\* results := s.crawler.Start(ctx, req.URL): the goroutine reads the field
StartCrawler(r) ==
    /\ api.post[r] = "start"
    /\ api' = [api EXCEPT !.inst[r] = api.crawler,
                          !.starts[api.crawler] = @ + 1,
                          !.post[r] = "ranging"]
    /\ ServerOnly

\* handleWebSocket: s.clientsLock.Lock(); s.clients[conn] = true; Unlock()
Register ==
    /\ api.loop = "register"
    /\ api.lock = 0
    /\ api' = [api EXCEPT !.clients = TRUE, !.loop = "registered"]
    /\ ServerOnly

\* conn.WriteJSON(welcome) starts
BeginWelcome ==
    /\ api.loop = "registered"
    /\ api' = [api EXCEPT !.loop = "welcome"]
    /\ ServerOnly

\* conn.WriteJSON(welcome) returns (an error is logged only); the read loop
\* waits in conn.ReadJSON
Welcome ==
    /\ api.loop = "welcome"
    /\ api' = [api EXCEPT !.loop = "reading"]
    /\ ServerOnly

\* case "start": s.handleStartCrawl(conn, msg): the read loop validates the
\* URL and starts to write the acknowledgment, or the error response
ReceiveStart(k) ==
    /\ api.loop = "reading"
    /\ api.conn = "open"
    /\ api.ws[k] = "none"
    /\ \A j \in 1..(k - 1) : api.ws[j] # "none"
    /\ \E valid \in BOOLEAN :
          api' = [api EXCEPT !.loop = "start",
                             !.ws[k] = IF valid THEN "ack" ELSE "error"]
    /\ ServerOnly

\* conn.WriteJSON(ack) returns: after an error handleStartCrawl returns,
\* else it spawns the crawl goroutine; the read loop reads on
WriteAck(k) ==
    /\ api.ws[k] = "ack"
    /\ \E ok \in BOOLEAN :
          /\ api.conn = "closed" => ~ok
          /\ api' = [api EXCEPT !.loop = "reading",
                                !.ws[k] = IF ok THEN "idle" ELSE "refused"]
    /\ ServerOnly

\* conn.WriteJSON(errResp) returns: handleStartCrawl returns, no goroutine
WriteError(k) ==
    /\ api.ws[k] = "error"
    /\ api' = [api EXCEPT !.loop = "reading", !.ws[k] = "refused"]
    /\ ServerOnly

\* switch msg["type"].(string) on a message whose type is not a string: the
\* type assertion panics, the deferred conn.Close() runs, the connection
\* stays in s.clients; net/http recovers the panic of the handler
ReceivePanics ==
    /\ api.loop = "reading"
    /\ api.conn = "open"
    /\ api' = [api EXCEPT !.loop = "panicked", !.conn = "closed"]
    /\ ServerOnly

\* conn.ReadJSON returns an error: the read loop ends
ReadFails ==
    /\ api.loop = "reading"
    /\ api' = [api EXCEPT !.loop = "unregister"]
    /\ ServerOnly

\* s.clientsLock.Lock(); delete(s.clients, conn); Unlock()
Unregister ==
    /\ api.loop = "unregister"
    /\ api.lock = 0
    /\ api' = [api EXCEPT !.clients = FALSE, !.loop = "unregistered"]
    /\ ServerOnly

\* handleWebSocket returns: the deferred conn.Close() runs
CloseConn ==
    /\ api.loop = "unregistered"
    /\ api' = [api EXCEPT !.conn = "closed", !.loop = "returned"]
    /\ ServerOnly

\* conn.WriteJSON of a crawl goroutine starts
BeginWrite(k) ==
    /\ api.ws[k] = "idle"
    /\ api' = [api EXCEPT !.ws[k] = "writing"]
    /\ ServerOnly

\* conn.WriteJSON of a crawl goroutine returns: it was a result and the
\* goroutine goes on, or it failed or was 'complete' and the goroutine ends.
\* A write to a closed connection returns an error.
EndWrite(k) ==
    /\ api.ws[k] = "writing"
    /\ \E last \in BOOLEAN :
          /\ api.conn = "closed" => last
          /\ api' = [api EXCEPT !.ws[k] = IF last THEN "done" ELSE "idle"]
    /\ ServerOnly

NextAPI ==
    \/ \E r \in Requests : HandleCrawl(r)
    \/ \E r \in Requests : LockClients(r)
    \/ \E r \in Requests : BeginBroadcast(r)
    \/ \E r \in Requests : EndBroadcast(r)
    \/ \E r \in Requests : StartCrawler(r)
    \/ Register
    \/ BeginWelcome
    \/ Welcome
    \/ \E k \in Crawls : ReceiveStart(k)
    \/ \E k \in Crawls : WriteAck(k)
    \/ \E k \in Crawls : WriteError(k)
    \/ ReceivePanics
    \/ ReadFails
    \/ Unregister
    \/ CloseConn
    \/ \E k \in Crawls : BeginWrite(k)
    \/ \E k \in Crawls : EndWrite(k)

InitAPI == InitWith({1}, {1}, {0}) /\ NoCalls

SpecAPI == InitAPI /\ [][NextAPI]_vars

(***************************************************************************)
(* Per-host wait, completion, consumer failure, server, termination.       *)
(***************************************************************************)
\* C31: with a single worker, the last access recorded in a rules object
\* never decreases and moves only forward by at least the crawl-delay of the
\* object; the worker that waits on rules never accessed before does not
\* have to wait; and a fetch starts only when the worker has woken up.
C31_SingleCallerWait ==
    /\ [](maxWorkers = 1 =>
            \A w \in Spawned :
                (wk[w].pc = "wait" /\ rulesHeap[wk[w].rules].lastAccess = ZeroTime)
                    => wk[w].wake <= now)
    /\ [][maxWorkers = 1 =>
            \A i \in 1..Len(rulesHeap) :
                /\ rulesHeap'[i].lastAccess >= rulesHeap[i].lastAccess
                /\ rulesHeap'[i].lastAccess # rulesHeap[i].lastAccess
                      => /\ rulesHeap'[i].lastAccess = now
                         /\ now >= rulesHeap[i].lastAccess + rulesHeap[i].crawlDelay]_vars

\* A single worker has fetched two pages of one host, the second after the
\* crawl-delay of the host.
C31_Witness ==
    /\ maxWorkers = 1
    /\ \E f, g \in BagToSet(fetched) :
          /\ f.url.host = g.url.host
          /\ f.time >= g.time + EffectiveDelay(f.url.host)

\* C32: once no task is queued and no worker is processing one, the crawl
\* goroutine of the WebSocket handler eventually sends 'complete', unless a
\* write to the connection fails.
C32_CompleteSent == Quiescent ~> (handler \in {"complete", "failed"})

\* C33: once the consumer has stopped reading and has cancelled the run,
\* every worker eventually exits and the result stream is closed.
C33_ConsumerGone ==
    (handler = "failed") ~> (resultsClosed /\ \A w \in Spawned : Returned(w))

\* C34: the goroutine of every POST /crawl request starts the crawler that
\* was created for that request, and no crawler is started twice.
C34_StartedOnce ==
    /\ \A r \in Requests : api.inst[r] # 0 => api.inst[r] = r
    /\ \A i \in Requests : api.starts[i] <= 1

\* The goroutines inside a write to the connection: broadcasts of POST
\* /crawl, crawl goroutines, and the read loop (welcome, acknowledgment or
\* error response).
Writers ==
    Cardinality({r \in Requests : api.post[r] = "writing"})
        + Cardinality({k \in Crawls : api.ws[k] = "writing"})
        + (IF api.loop \in {"welcome", "start"} THEN 1 ELSE 0)

\* C35: while a crawl goroutine is inside a write to the connection, no
\* other goroutine is inside a write to it.
C35_SingleWriter == \A k \in Crawls : api.ws[k] = "writing" => Writers = 1

\* The links of every URL are enqueued by one worker only, the one that
\* fetched it, and every URL is fetched once.
EnqueuedOnce ==
    /\ \A f \in BagToSet(fetched) : CopiesIn(f, fetched) = 1
    /\ \A f, g \in BagToSet(fetched) : f.url = g.url => f = g
    /\ \A w \in Spawned :
          wk[w].pc = "queue"
              => /\ wk[w].rules # 0
                 /\ FetchedURL(wk[w].task.url)
                 /\ \A v \in Spawned \ {w} :
                       ~(wk[v].pc = "queue" /\ wk[v].task.url = wk[w].task.url)
    /\ dequeued <= 1 + Cardinality({f.url : f \in BagToSet(fetched)})
                        * Len(Web3(Seed).hrefs)

\* C36 as stated: the links of a URL are enqueued at most once, and every
\* run reaches a state with an empty queue and all workers idle.
C36_EnqueuedOnceAndQuiescent == []EnqueuedOnce /\ <>Quiescent

\* C36: the links of a URL are enqueued at most once, and every run that is
\* not cancelled reaches a state with an empty queue and all workers idle.
C36_QuiescentUnlessCancelled == []EnqueuedOnce /\ <>(Quiescent \/ cancelled)

\* An uncancelled run has come to rest after the seed and two children.
C36_Witness == Quiescent /\ ~cancelled /\ dequeued >= 3

\* The result of the page that links to the URL of t has been sent.
ParentSent(t) ==
    \E r \in BagToSet(emitted) :
        /\ r.err = ""
        /\ \E i \in 1..Len(r.links) : resolveURL(r.url, r.links[i]).url = t.url

\* C37: for every child task that is queued or held, and for every worker
\* that is enqueuing children, the result of the parent page is among the
\* results sent.
C37_ResultBeforeChildren ==
    /\ \A i \in 1..Len(urlsToCrawl) :
          urlsToCrawl[i].depth > 0 => ParentSent(urlsToCrawl[i])
    /\ \A w \in Spawned :
          /\ (Processing(w) /\ wk[w].task.depth > 0) => ParentSent(wk[w].task)
          /\ wk[w].pc = "queue"
                => [url |-> wk[w].task.url, links |-> wk[w].links, err |-> wk[w].err]
                      \in BagToSet(emitted)

\* A child task is in the frontier queue.
C37_Witness == \E i \in 1..Len(urlsToCrawl) : urlsToCrawl[i].depth > 0

====
